---- MODULE Spec2Model ----
(***************************************************************************)
(* Model of dynamics/utils.py: the SQLiteCache fallback cache, the         *)
(* sqlite_method decorator that runs every cache operation under its own   *)
(* sqlite3 connection, and the error_simplification_available decorator.   *)
(*                                                                         *)
(* Spec runs the operations one after another on the module-level cache    *)
(* object.  SpecConc lets two threads call into cache objects that share   *)
(* the cache file, their statements interleaved.  SpecSimplify runs one    *)
(* call through error_simplification_available.                            *)
(*                                                                         *)
(* Storage is the committed content of the database file (schema, rows).   *)
(* A connection carries the implicit transaction the sqlite3 module opens  *)
(* before the first INSERT/UPDATE/DELETE: its uncommitted working copy     *)
(* becomes the stored rows on commit() and is discarded on close().        *)
(* Every sqlite3 call may raise (sqlite3.OperationalError); that is an     *)
(* input of the environment, drawn with \E.                                *)
(* Time is counted in clock ticks.  A datetime is a tick count from the    *)
(* datetime origin, a POSIX timestamp a tick count from the epoch.         *)
(*                                                                         *)
(* pre, committed, firsterr, mycon and hist are history variables: they    *)
(* record what an operation saw and did, and the program never reads them. *)
(***************************************************************************)
EXTENDS Integers, FiniteSets, Sequences, TLC

\* ---------------------------------------------------------------- bounds
MaxTime    == 1        \* the clock advances at most this many ticks
MaxTimeout == 1        \* largest timeout passed to set
NumThreads == 2        \* threads that may call the cache object

\* ------------------------------------------------------ program constants
Epoch           == 10  \* datetime tick count of the POSIX epoch

DEFAULT_PRAGMA ==
  << <<"mmap_size", "67108864">>, <<"cache_size", "8192">>,
     <<"wal_autocheckpoint", "1000">>, <<"auto_vacuum", "none">>,
     <<"synchronous", "off">>, <<"journal_mode", "wal">>,
     <<"temp_store", "memory">> >>

\* ------------------------------------------------------------ input sets
Threads  == 1..NumThreads
ConnIds  == 1..(NumThreads + 1)
Keys     == {"a", "b"}
Values   == {"x", "y", "lambda"}     \* "lambda" cannot be pickled
Defaults == {"None", "y"}
Timeouts == -1..MaxTimeout

NoValue  == "-"
NoBlob   == <<>>
NoErr    == [type |-> "none", at |-> "none"]
NoData   == [key |-> NoValue, value |-> NoBlob, exp |-> 0]

\* An operation and its arguments.  An argument is drawn from its input set
\* at the step where the code first reads it; until then it is NoValue / 0.
NoOp     == [kind |-> "none", self |-> NoValue, key |-> NoValue,
             value |-> NoValue, timeout |-> 0, default |-> NoValue]
Kinds    == {"get", "set", "clear", "__init__"}

\* SQLiteCache objects on the one cache file: the module-level object "cache"
\* and another instance constructed with the same file name
Caches   == {"cache", "other"}

VARIABLES
  env,        \* the surroundings of the run: whether the storage engine may
              \* fail on its own account (disk full, I/O error), and the
              \* keys, values, timeouts and defaults the callers pass
  now,        \* the UTC clock, a datetime
  schema,     \* objects of the database file: "cache" table, "cache_key" index
  rows,       \* committed rows of table cache: [key, value, exp]
  con,        \* per cache object: self.con, the connection last opened on it
  conns,      \* per connection: open, pragmas applied, statement executed,
              \* implicit transaction and its working copy
  pc,         \* per caller: position inside the running operation
  op,         \* per caller: operation and the arguments read so far
  pidx,       \* per caller: index of the next pragma of _apply_pragma
  result,     \* per caller: get's fetchone() result, a set of at most one row
  utcnow,     \* per caller: the clock value get compared the expiry with
  data,       \* per caller: set's statement parameters
  value,      \* per caller: value returned by the operation body
  sqlerror,   \* per caller: exception caught by sqlite_method
  ret,        \* per caller: what the caller received
  mycon,      \* per caller: connection opened by the running operation
  pre,        \* per caller: committed rows when the operation was called
  committed,  \* per caller: commit() of the operation succeeded
  firsterr,   \* per caller: first exception raised inside the operation
  hist,       \* per key: the last committed set (value, timeout > 0, clock
              \* value read plus timeout) or clear
  wrapper     \* a call through error_simplification_available:
              \*   call: the call as the caller made it: args[0] (the
              \*     client's simplified_error_message), the keyword
              \*     arguments, and what the wrapped function does
              \*   kwargs: inner's kwargs dictionary
              \*   simplify_errors: kwargs.pop("simplify_errors", False)
              \*   raise_separately: kwargs.pop("raise_separately", [])
              \*   error: the exception caught by "except Exception as error"
              \*   received: keyword arguments the wrapped function got
              \*   outcome: what the caller of inner received
              \*   pc: position inside inner

vars == <<env, now, schema, rows, con, conns, pc, op, pidx, result, utcnow,
          data, value, sqlerror, ret, mycon, pre, committed, firsterr, hist,
          wrapper>>

locals == <<pidx, result, utcnow, data, value, sqlerror>>

\* --------------------------------------------------------- pure functions
\* datetime.timestamp() of an aware UTC datetime
timestamp(dt) == dt - Epoch

\* mutant: datetime.fromtimestamp(), local time one tick east of UTC
fromtimestamp_local(ts) == Epoch + ts + 1

\* datetime.utcfromtimestamp()
utcfromtimestamp(ts) == Epoch + ts

\* SQLiteCache._exp_timestamp: (now(utc) + timedelta(seconds=timeout)).timestamp()
_exp_timestamp(clock, timeout) == timestamp(clock + timeout)

\* pickle.dumps / pickle.loads
Picklable(v) == v # "lambda"
_stream(v)   == <<"pickle", v>>
_unstream(b) == b[2]

\* mutant: the staleness test with its operands exchanged
Expired_reversed(clock, exp) == utcfromtimestamp(exp) >= clock

\* mutant: the staleness test with > in place of >=
Expired_strict(clock, exp) == clock > utcfromtimestamp(exp)

\* get's staleness test: datetime.utcnow() >= datetime.utcfromtimestamp(exp)
Expired(clock, exp) == clock >= utcfromtimestamp(exp)

\* mutant: the SELECT without its WHERE clause
_get_sql_all(table, key) == table

\* "SELECT value, exp FROM cache WHERE key = :key"
_get_sql(table, key) == {r \in table : r.key = key}

\* mutant: INSERT OR IGNORE, which keeps the stored row on a conflict
_set_sql_ignore(table, d) ==
  IF \E r \in table : r.key = d.key THEN table ELSE table \cup {d}

\* mutant: a plain INSERT, without the ON CONFLICT clause
_set_sql_insert(table, d) == table \cup {d}

\* "INSERT ... ON CONFLICT(key) DO UPDATE SET value = :value, exp = :exp"
_set_sql(table, d) ==
  IF \E r \in table : r.key = d.key
    THEN {IF r.key = d.key THEN [r EXCEPT !.value = d.value, !.exp = d.exp]
                           ELSE r : r \in table}
    ELSE table \cup {d}

\* mutant: a DELETE that removes nothing
_delete_sql_none(table, key) == table

\* mutant: the DELETE without its WHERE clause
_delete_sql_all(table, key) == {}

\* "DELETE FROM cache WHERE key = :key"
_delete_sql(table, key) == {r \in table : r.key # key}

\* mutant: clear that purges only the expired rows
_clear_sql_expired(table) == {r \in table : ~Expired(now, r.exp)}

\* "DELETE FROM cache"
_clear_sql(table) == {}

\* mutant: the table is dropped and created again
_create_sql_reset(db) == [schema |-> db.schema \cup {"cache"}, rows |-> {}]

\* "CREATE TABLE IF NOT EXISTS cache (...)": a new table is empty
_create_sql(db) ==
  IF "cache" \in db.schema
    THEN db
    ELSE [schema |-> db.schema \cup {"cache"}, rows |-> {}]

\* "CREATE UNIQUE INDEX IF NOT EXISTS cache_key ON cache(key)"
_create_index_sql(db) ==
  IF "cache_key" \in db.schema
    THEN db
    ELSE [db EXCEPT !.schema = db.schema \cup {"cache_key"}]

\* ------------------------------------------------------------ connections
ClosedConn == [open |-> FALSE, pragmas |-> {}, executed |-> FALSE,
               intxn |-> FALSE, work |-> {}]
FreshConn  == [ClosedConn EXCEPT !.open = TRUE]

\* self.con of the cache object that t's operation was called on
self_con(t) == con[op[t].self]

\* sqlite3.connect(): a new connection object, distinct from the connection
\* of every running operation and from self.con of every other cache object
InUse(c) == \E t \in Threads : pc[t] # "idle" /\ mycon[t] = c
Free(self, c) == ~InUse(c) /\ \A o \in Caches \ {self} : con[o] # c
NewConn(self) == CHOOSE c \in ConnIds :
                   Free(self, c) /\ \A d \in ConnIds : Free(self, d) => c <= d

\* sqlite3.connect(check_same_thread=True), the default: a call on self.con
\* goes through only in the thread that created the connection, and only
\* while it is open; otherwise it raises sqlite3.ProgrammingError
Usable(t) == self_con(t) = mycon[t] /\ conns[self_con(t)].open

\* another open connection holds the write lock of the file
Locked(c) == \E d \in ConnIds \ {c} : conns[d].open /\ conns[d].intxn

\* what a statement on connection c reads
View(c) == IF conns[c].intxn THEN conns[c].work ELSE rows

\* a data-changing statement opens the implicit transaction
Write(c, table) == [conns EXCEPT ![c].intxn = TRUE, ![c].work = table]

\* mutant: commit() that writes nothing
CommitRows_skip(c) == rows

\* Connection.commit()
CommitRows(c) == IF conns[c].intxn THEN conns[c].work ELSE rows

\* Connection.close(): the open transaction is rolled back
CloseConn(c) == [conns EXCEPT ![c] = ClosedConn]

\* what a statement of t's operation reads
Visible(t) == View(self_con(t))

OperationalError(step) == [type |-> "OperationalError", at |-> step]
ProgrammingError(step) == [type |-> "ProgrammingError", at |-> step]

\* a call on self.con raises: the storage engine fails, or the connection
\* cannot be used by this thread
Fails(t) == env.faults \/ ~Usable(t)

\* a data-changing statement also raises ("database is locked") while
\* another connection holds the write lock
WriteFails(t) == Fails(t) \/ Locked(self_con(t))

\* the exception a failing call on self.con raises
Sqlite3Error(t, step) ==
  IF Usable(t) THEN OperationalError(step) ELSE ProgrammingError(step)
PicklingError          == [type |-> "PicklingError", at |-> "body"]

Returned(v) == [status |-> "ok", value |-> v, err |-> NoErr]
Raised(e)   == [status |-> "error", value |-> NoValue, err |-> e]
NoRet       == [status |-> "none", value |-> NoValue, err |-> NoErr]

NoHist == [st |-> "never", value |-> NoValue, positive |-> FALSE,
           deadline |-> 0]

\* ------------------------------------------------------------------- Init
\* no call through error_simplification_available is in progress
NoExc == [type |-> "none", msg |-> ""]
NoOutcome == [status |-> "none", exc |-> NoExc, cause |-> NoExc]
Idle ==
  [call |-> [self |-> "", kwargs |-> <<>>, func |-> NoExc],
   kwargs |-> <<>>, simplify_errors |-> FALSE, raise_separately |-> {},
   error |-> NoExc, received |-> <<>>, outcome |-> NoOutcome, pc |-> "idle"]
NoCall == wrapper = Idle

\* the cache file as the constructor leaves it, and no operation running
NewCache ==
  /\ env = [faults |-> TRUE, keys |-> Keys, values |-> Values,
            timeouts |-> Timeouts, defaults |-> Defaults]
  /\ now = Epoch
  /\ schema = {"cache", "cache_key"}
  /\ rows = {}
  /\ con = [o \in Caches |-> 0]
  /\ conns = [c \in ConnIds |-> ClosedConn]
  /\ pc = [t \in Threads |-> "idle"]
  /\ op = [t \in Threads |-> NoOp]
  /\ pidx = [t \in Threads |-> 1]
  /\ result = [t \in Threads |-> {}]
  /\ utcnow = [t \in Threads |-> 0]
  /\ data = [t \in Threads |-> NoData]
  /\ value = [t \in Threads |-> NoValue]
  /\ sqlerror = [t \in Threads |-> NoErr]
  /\ ret = [t \in Threads |-> NoRet]
  /\ mycon = [t \in Threads |-> 0]
  /\ pre = [t \in Threads |-> {}]
  /\ committed = [t \in Threads |-> FALSE]
  /\ firsterr = [t \in Threads |-> NoErr]
  /\ hist = [k \in Keys |-> NoHist]

Init == NewCache /\ NoCall

\* ---------------------------------------------------------------- actions
\* mutant: a sweeper removes the rows that have expired as the clock advances
Tick_sweep ==
  /\ now < Epoch + MaxTime
  /\ now' = now + 1
  /\ rows' = {r \in rows : Epoch + r.exp > now + 1}
  /\ UNCHANGED <<schema, con, conns, pc, op, locals, ret, mycon, pre,
                 committed, firsterr, hist, wrapper, env>>

\* The clock advances; nothing else changes (there is no background sweeper).
Tick ==
  /\ now < Epoch + MaxTime
  /\ now' = now + 1
  /\ UNCHANGED <<schema, rows, con, conns, pc, op, locals, ret, mycon, pre,
                 committed, firsterr, hist, wrapper, env>>

\* hist when the commit of t's operation succeeded
Settled(t) ==
  [k \in Keys |->
     IF op[t].kind = "set" /\ op[t].key = k
       THEN [st |-> "set", value |-> op[t].value,
             positive |-> op[t].timeout > 0,
             deadline |-> utcnow[t] + op[t].timeout]
     ELSE IF op[t].kind = "clear"
       THEN [NoHist EXCEPT !.st = "cleared", !.value = hist[k].value]
       ELSE hist[k]]

FirstPc(kind) == IF kind = "__init__" THEN "create" ELSE "pragma"

\* The caller invokes get, set, clear or the constructor:
\* self.con = sqlite3.connect(self.connection_string).  The connection object
\* self.con referred to before loses its last reference and is finalized.
Call(t, kind, self) ==
  /\ pc[t] = "idle"
  /\ op' = [op EXCEPT ![t] = [NoOp EXCEPT !.kind = kind, !.self = self]]
  /\ pre' = [pre EXCEPT ![t] = rows]
  /\ committed' = [committed EXCEPT ![t] = FALSE]
  /\ pidx' = [pidx EXCEPT ![t] = 1]
  /\ result' = [result EXCEPT ![t] = {}]
  /\ utcnow' = [utcnow EXCEPT ![t] = 0]
  /\ data' = [data EXCEPT ![t] = NoData]
  /\ value' = [value EXCEPT ![t] = NoValue]
  /\ sqlerror' = [sqlerror EXCEPT ![t] = NoErr]
  /\ \/ /\ LET new == NewConn(self)
           IN /\ con' = [con EXCEPT ![self] = new]
              /\ conns' = [[conns EXCEPT ![con[self]] = ClosedConn]
                             EXCEPT ![new] = FreshConn]
              /\ mycon' = [mycon EXCEPT ![t] = new]
        /\ pc' = [pc EXCEPT ![t] = FirstPc(kind)]
        /\ ret' = [ret EXCEPT ![t] = NoRet]
        /\ firsterr' = [firsterr EXCEPT ![t] = NoErr]
     \/ /\ env.faults                       \* connect() raises
        /\ UNCHANGED <<con, conns>>
        /\ mycon' = [mycon EXCEPT ![t] = 0]
        /\ pc' = [pc EXCEPT ![t] = "idle"]
        /\ ret' = [ret EXCEPT ![t] = Raised(OperationalError("connect"))]
        /\ firsterr' = [firsterr EXCEPT ![t] = OperationalError("connect")]
  /\ UNCHANGED <<wrapper, env, now, schema, rows, hist>>

\* An exception leaves inner() without passing through the handler: the
\* caller receives it and nothing is cleaned up.
Propagate(t, e) ==
  /\ pc' = [pc EXCEPT ![t] = "idle"]
  /\ ret' = [ret EXCEPT ![t] = Raised(e)]
  /\ firsterr' = [firsterr EXCEPT ![t] =
                    IF firsterr[t] = NoErr THEN e ELSE firsterr[t]]

\* An exception raised inside the try block: except Exception as sqlerror
Catch(t, e) ==
  /\ pc' = [pc EXCEPT ![t] = "exc_optimize"]
  /\ sqlerror' = [sqlerror EXCEPT ![t] = e]
  /\ firsterr' = [firsterr EXCEPT ![t] = e]

\* A statement other than a pragma has been executed on connection c
Counted(cs, c) == [cs EXCEPT ![c].executed = TRUE]

\* self._apply_pragma(): one PRAGMA key=value per step, outside the try block
_apply_pragma(t) ==
  /\ pc[t] = "pragma"
  /\ \/ /\ Usable(t)
        /\ conns' = [conns EXCEPT ![self_con(t)].pragmas =
                       @ \cup {DEFAULT_PRAGMA[pidx[t]][1]}]
        /\ pidx' = [pidx EXCEPT ![t] = @ + 1]
        /\ pc' = [pc EXCEPT ![t] =
                    IF pidx[t] = Len(DEFAULT_PRAGMA)
                      THEN (IF op[t].kind = "get" THEN "select"
                            ELSE IF op[t].kind = "set" THEN "data"
                            ELSE "clear")
                      ELSE "pragma"]
        /\ UNCHANGED <<ret, firsterr>>
     \/ /\ Fails(t)
        /\ Propagate(t, Sqlite3Error(t, "pragma"))
        /\ pidx' = [pidx EXCEPT ![t] = 1]
        /\ UNCHANGED conns
  /\ UNCHANGED <<wrapper, env, now, schema, rows, con, op, result, utcnow,
                 data,
                 value,
                 sqlerror, mycon, pre, committed, hist>>

\* An exception raised inside the try block leaves the handler with nothing
\* but sqlerror: the arguments and locals of the operation body are gone.
Unwind(t) ==
  /\ op' = [op EXCEPT ![t] = [NoOp EXCEPT !.kind = op[t].kind,
                                          !.self = op[t].self]]
  /\ result' = [result EXCEPT ![t] = {}]
  /\ utcnow' = [utcnow EXCEPT ![t] = 0]
  /\ data' = [data EXCEPT ![t] = NoData]
  /\ value' = [value EXCEPT ![t] = NoValue]

\* get: result = self.con.execute(self._get_sql, {"key": key}).fetchone()
get_select(t) ==
  /\ pc[t] = "select"
  /\ \/ /\ Usable(t)
        /\ \E key \in env.keys :
             /\ op' = [op EXCEPT ![t].key = key]
             /\ \E r \in SUBSET _get_sql(Visible(t), key) :
                  /\ Cardinality(r) <= 1
                  /\ r = {} => _get_sql(Visible(t), key) = {}
                  /\ result' = [result EXCEPT ![t] = r]
        /\ conns' = Counted(conns, self_con(t))
        /\ pc' = [pc EXCEPT ![t] = "check"]
        /\ UNCHANGED <<utcnow, data, value, sqlerror, firsterr>>
     \/ /\ Fails(t)
        /\ Catch(t, Sqlite3Error(t, "select"))
        /\ Unwind(t)
        /\ UNCHANGED conns
  /\ UNCHANGED <<wrapper, env, now, schema, rows, con, pidx, ret, mycon, pre,
                 committed,
                 hist>>

\* get: "if result is None: return default", then the staleness test, then
\* "return self._unstream(result[0])"
get_check(t) ==
  /\ pc[t] = "check"
  /\ IF result[t] = {}
       THEN \E default \in env.defaults :
              /\ op' = [op EXCEPT ![t].default = default]
              /\ value' = [value EXCEPT ![t] = default]
              /\ pc' = [pc EXCEPT ![t] = "commit"]
              /\ UNCHANGED utcnow
       ELSE \E r \in result[t] :
              /\ utcnow' = [utcnow EXCEPT ![t] = now]
              /\ IF Expired(now, r.exp)
                   THEN /\ pc' = [pc EXCEPT ![t] = "delete"]
                        /\ UNCHANGED <<value, op>>
                   ELSE /\ value' = [value EXCEPT ![t] = _unstream(r.value)]
                        /\ pc' = [pc EXCEPT ![t] = "commit"]
                        /\ UNCHANGED op
  /\ UNCHANGED <<wrapper, env, now, schema, rows, con, conns, pidx, result,
                 data,
                 sqlerror, ret, mycon, pre, committed, firsterr, hist>>

\* get: self.con.execute(self._delete_sql, {"key": key}); return default
get_delete(t) ==
  /\ pc[t] = "delete"
  /\ \/ /\ Usable(t) /\ ~Locked(self_con(t))
        /\ conns' = Counted(Write(self_con(t),
                                  _delete_sql(Visible(t), op[t].key)),
                            self_con(t))
        /\ \E default \in env.defaults :
             /\ op' = [op EXCEPT ![t].default = default]
             /\ value' = [value EXCEPT ![t] = default]
        /\ pc' = [pc EXCEPT ![t] = "commit"]
        /\ UNCHANGED <<result, utcnow, data, sqlerror, firsterr>>
     \/ /\ WriteFails(t)
        /\ Catch(t, Sqlite3Error(t, "delete"))
        /\ Unwind(t)
        /\ UNCHANGED conns
  /\ UNCHANGED <<wrapper, env, now, schema, rows, con, pidx, ret, mycon, pre,
                 committed,
                 hist>>

\* set: data = {"key": key, "value": self._stream(value),
\*              "exp": self._exp_timestamp(timeout)}
set_data(t) ==
  /\ pc[t] = "data"
  /\ \E key \in env.keys, v \in env.values :
       IF Picklable(v)
         THEN \E timeout \in env.timeouts :
                /\ op' = [op EXCEPT ![t].key = key, ![t].value = v,
                                    ![t].timeout = timeout]
                /\ data' = [data EXCEPT ![t] =
                              [key |-> key, value |-> _stream(v),
                               exp |-> _exp_timestamp(now, timeout)]]
                /\ utcnow' = [utcnow EXCEPT ![t] = now]
                /\ pc' = [pc EXCEPT ![t] = "upsert"]
                /\ UNCHANGED <<result, value, sqlerror, firsterr>>
         ELSE /\ Catch(t, PicklingError)
              /\ Unwind(t)
  /\ UNCHANGED <<wrapper, env, now, schema, rows, con, conns, pidx, ret,
                 mycon, pre,
                 committed, hist>>

\* set: self.con.execute(self._set_sql, data)
set_execute(t) ==
  /\ pc[t] = "upsert"
  /\ \/ /\ Usable(t) /\ ~Locked(self_con(t))
        /\ conns' = Counted(Write(self_con(t), _set_sql(Visible(t), data[t])),
                            self_con(t))
        /\ value' = [value EXCEPT ![t] = "None"]
        /\ pc' = [pc EXCEPT ![t] = "commit"]
        /\ UNCHANGED <<op, result, utcnow, data, sqlerror, firsterr>>
     \/ /\ WriteFails(t)
        /\ Catch(t, Sqlite3Error(t, "upsert"))
        /\ Unwind(t)
        /\ UNCHANGED conns
  /\ UNCHANGED <<wrapper, env, now, schema, rows, con, pidx, ret, mycon, pre,
                 committed,
                 hist>>

\* clear: self.con.execute(self._clear_sql)
clear(t) ==
  /\ pc[t] = "clear"
  /\ \/ /\ Usable(t) /\ ~Locked(self_con(t))
        /\ conns' = Counted(Write(self_con(t), _clear_sql(Visible(t))),
                            self_con(t))
        /\ value' = [value EXCEPT ![t] = "None"]
        /\ pc' = [pc EXCEPT ![t] = "commit"]
        /\ UNCHANGED <<op, result, utcnow, data, sqlerror, firsterr>>
     \/ /\ WriteFails(t)
        /\ Catch(t, Sqlite3Error(t, "clear"))
        /\ Unwind(t)
        /\ UNCHANGED conns
  /\ UNCHANGED <<wrapper, env, now, schema, rows, con, pidx, ret, mycon, pre,
                 committed,
                 hist>>

\* __init__: self.con.execute(self._create_sql); DDL takes effect at once
init_create(t) ==
  /\ pc[t] = "create"
  /\ \/ /\ Usable(t)
        /\ schema' = _create_sql([schema |-> schema, rows |-> rows]).schema
        /\ rows' = _create_sql([schema |-> schema, rows |-> rows]).rows
        /\ conns' = Counted(conns, self_con(t))
        /\ pc' = [pc EXCEPT ![t] = "index"]
        /\ UNCHANGED <<ret, firsterr>>
     \/ /\ Fails(t)
        /\ Propagate(t, Sqlite3Error(t, "create"))
        /\ UNCHANGED <<schema, rows, conns>>
  /\ UNCHANGED <<wrapper, env, now, con, op, locals, mycon, pre, committed,
                 hist>>

\* __init__: self.con.execute(self._create_index_sql)
init_index(t) ==
  /\ pc[t] = "index"
  /\ \/ /\ Usable(t)
        /\ schema' =
             _create_index_sql([schema |-> schema, rows |-> rows]).schema
        /\ rows' = _create_index_sql([schema |-> schema, rows |-> rows]).rows
        /\ pc' = [pc EXCEPT ![t] = "init_commit"]
        /\ UNCHANGED <<ret, firsterr>>
     \/ /\ Fails(t)
        /\ Propagate(t, Sqlite3Error(t, "index"))
        /\ UNCHANGED <<schema, rows>>
  /\ UNCHANGED <<wrapper, env, now, con, conns, op, locals, mycon, pre,
                 committed,
                 hist>>

\* __init__: self.con.commit()
init_commit(t) ==
  /\ pc[t] = "init_commit"
  /\ \/ /\ Usable(t)
        /\ rows' = CommitRows(self_con(t))
        /\ conns' = [conns EXCEPT ![self_con(t)].intxn = FALSE,
                                  ![self_con(t)].work = {}]
        /\ committed' = [committed EXCEPT ![t] = TRUE]
        /\ pc' = [pc EXCEPT ![t] = "init_close"]
        /\ UNCHANGED <<ret, firsterr>>
     \/ /\ Fails(t)
        /\ Propagate(t, Sqlite3Error(t, "commit"))
        /\ UNCHANGED <<rows, conns, committed>>
  /\ UNCHANGED <<wrapper, env, now, schema, con, op, locals, mycon, pre, hist>>

\* __init__: self.con.close(), and the constructor returns
init_close(t) ==
  /\ pc[t] = "init_close"
  /\ \/ /\ Usable(t)
        /\ conns' = CloseConn(self_con(t))
        /\ pc' = [pc EXCEPT ![t] = "idle"]
        /\ ret' = [ret EXCEPT ![t] = Returned("None")]
        /\ UNCHANGED firsterr
     \/ /\ ~Usable(t)
        /\ Propagate(t, ProgrammingError("close"))
        /\ UNCHANGED conns
  /\ UNCHANGED <<wrapper, env, now, schema, rows, con, op, locals, mycon, pre,
                 committed, hist>>

\* inner: self.con.commit(), the last statement of the try block
Commit(t) ==
  /\ pc[t] = "commit"
  /\ \/ /\ Usable(t)
        /\ rows' = CommitRows(self_con(t))
        /\ conns' = [conns EXCEPT ![self_con(t)].intxn = FALSE,
                                  ![self_con(t)].work = {}]
        /\ committed' = [committed EXCEPT ![t] = TRUE]
        /\ hist' = Settled(t)
        /\ pc' = [pc EXCEPT ![t] = "optimize"]
        /\ UNCHANGED <<op, result, utcnow, data, value, sqlerror, firsterr>>
     \/ /\ Fails(t)
        /\ Catch(t, Sqlite3Error(t, "commit"))
        /\ Unwind(t)
        /\ UNCHANGED <<rows, conns, committed, hist>>
  /\ UNCHANGED <<wrapper, env, now, schema, con, pidx, ret, mycon, pre>>

\* inner, after the try block: self.con.execute("PRAGMA optimize")
Optimize(t) ==
  /\ pc[t] = "optimize"
  /\ \/ /\ Usable(t)
        /\ pc' = [pc EXCEPT ![t] = "close"]
        /\ UNCHANGED <<ret, firsterr>>
     \/ /\ Fails(t)
        /\ Propagate(t, Sqlite3Error(t, "optimize"))
  /\ UNCHANGED <<wrapper, env, now, schema, rows, con, conns, op, locals,
                 mycon,
                 pre,
                 committed, hist>>

\* inner, after the try block: self.con.close().  close() raises only when
\* it is called on a connection that another thread created.
Close(t) ==
  /\ pc[t] = "close"
  /\ \/ /\ Usable(t)
        /\ conns' = CloseConn(self_con(t))
        /\ pc' = [pc EXCEPT ![t] = "return"]
        /\ UNCHANGED <<ret, firsterr>>
     \/ /\ ~Usable(t)
        /\ Propagate(t, ProgrammingError("close"))
        /\ UNCHANGED conns
  /\ UNCHANGED <<wrapper, env, now, schema, rows, con, op, locals, mycon, pre,
                 committed, hist>>

\* inner: return value
Return(t) ==
  /\ pc[t] = "return"
  /\ pc' = [pc EXCEPT ![t] = "idle"]
  /\ ret' = [ret EXCEPT ![t] = Returned(value[t])]
  /\ UNCHANGED <<wrapper, env, now, schema, rows, con, conns, op, locals,
                 mycon,
                 pre,
                 committed, firsterr, hist>>

\* inner, except handler: self.con.execute("PRAGMA optimize"); an exception
\* raised here replaces sqlerror
ExcOptimize(t) ==
  /\ pc[t] = "exc_optimize"
  /\ \/ /\ Usable(t)
        /\ pc' = [pc EXCEPT ![t] = "exc_close"]
        /\ UNCHANGED <<ret, firsterr>>
     \/ /\ Fails(t)
        /\ Propagate(t, Sqlite3Error(t, "optimize"))
  /\ UNCHANGED <<wrapper, env, now, schema, rows, con, conns, op, locals,
                 mycon,
                 pre,
                 committed, hist>>

\* mutant: the handler commits the open transaction before closing
ExcClose_commit(t) ==
  /\ pc[t] = "exc_close"
  /\ rows' = CommitRows(self_con(t))
  /\ conns' = CloseConn(self_con(t))
  /\ pc' = [pc EXCEPT ![t] = "raise"]
  /\ UNCHANGED <<wrapper, env, now, schema, con, op, locals, ret, mycon, pre,
                 committed, firsterr, hist>>

\* inner, except handler: self.con.close()
ExcClose(t) ==
  /\ pc[t] = "exc_close"
  /\ \/ /\ Usable(t)
        /\ conns' = CloseConn(self_con(t))
        /\ pc' = [pc EXCEPT ![t] = "raise"]
        /\ UNCHANGED <<ret, firsterr>>
     \/ /\ ~Usable(t)
        /\ Propagate(t, ProgrammingError("close"))
        /\ UNCHANGED conns
  /\ UNCHANGED <<wrapper, env, now, schema, rows, con, op, locals, mycon, pre,
                 committed, hist>>

\* inner, except handler: raise sqlerror
Raise(t) ==
  /\ pc[t] = "raise"
  /\ pc' = [pc EXCEPT ![t] = "idle"]
  /\ ret' = [ret EXCEPT ![t] = Raised(sqlerror[t])]
  /\ UNCHANGED <<wrapper, env, now, schema, rows, con, conns, op, locals,
                 mycon,
                 pre,
                 committed, firsterr, hist>>

\* ---------------------------------------------------------- specification
\* One thread calls the cache; each operation runs to completion before the
\* next is called.
MainThread == CHOOSE t \in Threads : \A u \in Threads : t <= u

Invoke(t) == \E kind \in Kinds : Call(t, kind, "cache")

sqlite_method(t) ==
  \/ _apply_pragma(t)
  \/ Commit(t)
  \/ Optimize(t)
  \/ Close(t)
  \/ Return(t)
  \/ ExcOptimize(t)
  \/ ExcClose(t)
  \/ Raise(t)

Step(t) ==
  \/ Invoke(t)
  \/ get_select(t) \/ get_check(t) \/ get_delete(t)
  \/ set_data(t) \/ set_execute(t)
  \/ clear(t)
  \/ init_create(t) \/ init_index(t) \/ init_commit(t)
  \/ init_close(t)
  \/ sqlite_method(t)

Next == Tick \/ Step(MainThread)

Spec == Init /\ [][Next]_vars

\* ---------------------------------------------------- concurrent callers
\* Two threads call get, set and clear, once each, on the module-level
\* cache object or on another SQLiteCache object of the same file, and their
\* steps interleave.  The file holds what an earlier set("a", "x", timeout)
\* called at the first clock value left there, or nothing.  The storage
\* engine does not fail on its own account: a call on a connection raises
\* only because of what the other caller did.
ConcTimeouts == {0, MaxTimeout}

Seeds ==
  {{}} \cup {{[key |-> "a", value |-> _stream("x"),
               exp |-> _exp_timestamp(Epoch, timeout)]} :
              timeout \in ConcTimeouts}

InitConc ==
  /\ NoCall
  /\ env = [faults |-> FALSE, keys |-> {"a"}, values |-> {"x", "y"},
            timeouts |-> ConcTimeouts, defaults |-> {"None"}]
  /\ now = Epoch
  /\ schema = {"cache", "cache_key"}
  /\ rows \in Seeds
  /\ hist = [k \in Keys |->
               IF \E r \in rows : r.key = k
                 THEN [st |-> "set", value |-> "x",
                       positive |-> \E r \in rows : r.exp > 0,
                       deadline |-> CHOOSE d \in Epoch - 1..Epoch + MaxTimeout :
                                      \E r \in rows : d = Epoch + r.exp]
                 ELSE NoHist]
  /\ con = [o \in Caches |-> 0]
  /\ conns = [c \in ConnIds |-> ClosedConn]
  /\ pc = [t \in Threads |-> "idle"]
  /\ op = [t \in Threads |-> NoOp]
  /\ pidx = [t \in Threads |-> 1]
  /\ result = [t \in Threads |-> {}]
  /\ utcnow = [t \in Threads |-> 0]
  /\ data = [t \in Threads |-> NoData]
  /\ value = [t \in Threads |-> NoValue]
  /\ sqlerror = [t \in Threads |-> NoErr]
  /\ ret = [t \in Threads |-> NoRet]
  /\ mycon = [t \in Threads |-> 0]
  /\ pre = [t \in Threads |-> {}]
  /\ committed = [t \in Threads |-> FALSE]
  /\ firsterr = [t \in Threads |-> NoErr]

\* thread t makes its call: the main thread on the module-level object, the
\* other thread on the same object or on the other one
InvokeConc(t) ==
  /\ ret[t].status = "none"
  /\ \E kind \in {"get", "set", "clear"},
        self \in IF t = MainThread THEN {"cache"} ELSE Caches :
       Call(t, kind, self)

StepConc(t) ==
  \/ InvokeConc(t)
  \/ get_select(t) \/ get_check(t) \/ get_delete(t)
  \/ set_data(t) \/ set_execute(t)
  \/ clear(t)
  \/ sqlite_method(t)

\* the two callers: the main thread and one more
Callers == {t \in Threads : t <= MainThread + 1}

NextConc == Tick \/ \E t \in Callers : StepConc(t)

SpecConc == InitConc /\ [][NextConc]_vars

\* ------------------------------------- error_simplification_available
\* Exception classes and their direct base class.  DynamicsException is
\* defined in dynamics/exceptions.py as a subclass of Exception.
Base ==
  [BaseException |-> "object", Exception |-> "BaseException",
   KeyboardInterrupt |-> "BaseException", LookupError |-> "Exception",
   KeyError |-> "LookupError", ValueError |-> "Exception",
   DynamicsException |-> "Exception"]

Classes == DOMAIN Base

RECURSIVE Mro(_)
\* a class and all its base classes
Mro(cls) == IF cls \in Classes THEN {cls} \cup Mro(Base[cls]) ELSE {cls}

\* mutant: type(error) is exception
isinstance_exact(e, cls) == e.type = cls

\* isinstance(error, exception)
isinstance(e, cls) == cls \in Mro(e.type)

\* what kwargs.pop(name, default) leaves in kwargs
pop(kw, name) == [n \in DOMAIN kw \ {name} |-> kw[n]]

\* what kwargs.pop(name, default) returns
popped(kw, name, default) == IF name \in DOMAIN kw THEN kw[name] ELSE default

DynamicsException(message) == [type |-> "DynamicsException", msg |-> message]

\* exceptions the wrapped function may raise
Raisable ==
  {[type |-> c, msg |-> "boom"] :
     c \in {"KeyError", "ValueError", "DynamicsException", "KeyboardInterrupt"}}

\* types a caller may list in raise_separately
Listable == {"LookupError", "ValueError", "DynamicsException"}

Messages == {"simplified", "try again"}

\* keyword arguments of a call: each keyword may be left out
KwargsOf(se, rs, o) ==
  [n \in {m \in {"simplify_errors"} : se # "absent"}
        \cup {m \in {"raise_separately"} : rs # {"absent"}}
        \cup {m \in {"query"} : o # "absent"} |->
     IF n = "simplify_errors" THEN se = "True"
     ELSE IF n = "raise_separately" THEN rs
     ELSE o]

InitSimplify ==
  /\ NewCache
  /\ \E self \in Messages, func \in Raisable \cup {NoExc},
        se \in {"absent", "False", "True"},
        rs \in SUBSET Listable \cup {{"absent"}},
        o \in {"absent", "accounts"} :
       wrapper = [Idle EXCEPT
                    !.call = [self |-> self, kwargs |-> KwargsOf(se, rs, o),
                              func |-> func],
                    !.kwargs = KwargsOf(se, rs, o),
                    !.pc = "pop"]

cachevars == <<env, now, schema, rows, con, conns, pc, op, locals, ret, mycon,
               pre, committed, firsterr, hist>>

\* inner: simplify_errors = kwargs.pop("simplify_errors", False)
\*        raise_separately = kwargs.pop("raise_separately", [])
inner_pop ==
  /\ wrapper.pc = "pop"
  /\ wrapper' =
       [wrapper EXCEPT
          !.simplify_errors = popped(wrapper.kwargs, "simplify_errors", FALSE),
          !.raise_separately = popped(wrapper.kwargs, "raise_separately", {}),
          !.kwargs = pop(pop(wrapper.kwargs, "simplify_errors"),
                         "raise_separately"),
          !.pc = "try"]
  /\ UNCHANGED cachevars

\* inner: return func(*args, **kwargs).  "except Exception" catches what is
\* an instance of Exception; any other exception leaves inner as it is.
inner_try ==
  /\ wrapper.pc = "try"
  /\ wrapper' =
       IF wrapper.call.func = NoExc
         THEN [wrapper EXCEPT
                 !.received = wrapper.kwargs,
                 !.outcome = [NoOutcome EXCEPT !.status = "returned"],
                 !.pc = "idle"]
       ELSE IF isinstance(wrapper.call.func, "Exception")
         THEN [wrapper EXCEPT
                 !.received = wrapper.kwargs,
                 !.error = wrapper.call.func,
                 !.pc = "except"]
         ELSE [wrapper EXCEPT
                 !.received = wrapper.kwargs,
                 !.outcome = [NoOutcome EXCEPT !.status = "raised",
                                               !.exc = wrapper.call.func],
                 !.pc = "idle"]
  /\ UNCHANGED cachevars

\* inner, except handler: raise error, or
\* raise DynamicsException(self.simplified_error_message) from error
inner_except ==
  /\ wrapper.pc = "except"
  /\ wrapper' =
       [wrapper EXCEPT
          !.outcome =
             IF ~wrapper.simplify_errors
                \/ \E exception \in wrapper.raise_separately :
                     isinstance(wrapper.error, exception)
               THEN [status |-> "raised", exc |-> wrapper.error,
                     cause |-> NoExc]
               ELSE [status |-> "raised",
                     exc |-> DynamicsException(wrapper.call.self),
                     cause |-> wrapper.error],
          !.pc = "idle"]
  /\ UNCHANGED cachevars

NextSimplify == inner_pop \/ inner_try \/ inner_except

SpecSimplify == InitSimplify /\ [][NextSimplify]_vars

\* ------------------------------------------------------------ properties
CacheOps == {"get", "set", "clear"}

\* the caller of t's operation has received its outcome
Done(t)   == pc[t] = "idle" /\ ret[t].status # "none"
Ok(t)     == pc[t] = "idle" /\ ret[t].status = "ok"
Failed(t) == pc[t] = "idle" /\ ret[t].status = "error"

StoredFor(table, k) == {r \in table : r.key = k}

\* C1: a get(k, d) that returns before the timeout t > 0 of the last committed
\* set(k, v, timeout=t) has elapsed (counted from the clock value that set
\* read), with no set(k, ...) or clear() committed in between, returns v.
RoundTrip ==
  \A t \in Threads :
    (/\ Ok(t) /\ op[t].kind = "get"
     /\ hist[op[t].key].st = "set"
     /\ hist[op[t].key].positive
     /\ now < hist[op[t].key].deadline)
    => ret[t].value = hist[op[t].key].value

RoundTripWitness ==
  \E t \in Threads :
    /\ Ok(t) /\ op[t].kind = "get"
    /\ hist[op[t].key].st = "set"
    /\ hist[op[t].key].positive
    /\ now < hist[op[t].key].deadline
    /\ ret[t].value = hist[op[t].key].value
    /\ now > Epoch

\* C2: a get(k, d) whose lookup finds a row for k with expiry at or before the
\* UTC time it reads returns d, and after it completed no row for k is stored.
LazyExpiration ==
  \A t \in Threads :
    (/\ Ok(t) /\ op[t].kind = "get"
     /\ result[t] # {}
     /\ \A r \in result[t] : Epoch + r.exp <= utcnow[t])
    => /\ ret[t].value = op[t].default
       /\ StoredFor(rows, op[t].key) = {}

LazyExpirationWitness ==
  \E t \in Threads :
    /\ Ok(t) /\ op[t].kind = "get"
    /\ \E r \in result[t] : Epoch + r.exp = utcnow[t] /\ r \in pre[t]
    /\ ret[t].value = op[t].default
    /\ StoredFor(rows, op[t].key) = {}

\* C3: at most one row is stored per key, in the file and in every open
\* transaction; a committed set(k, v2) leaves exactly one row for k, holding
\* v2 and the new expiry, and a get(k) returning before that expiry returns v2.
UpsertUniqueness ==
  /\ \A k \in Keys :
       /\ Cardinality(StoredFor(rows, k)) <= 1
       /\ \A c \in ConnIds : Cardinality(StoredFor(conns[c].work, k)) <= 1
  /\ \A t \in Threads :
       /\ (Done(t) /\ op[t].kind = "set" /\ committed[t])
          => StoredFor(rows, op[t].key) =
               {[key |-> op[t].key, value |-> <<"pickle", op[t].value>>,
                 exp |-> utcnow[t] + op[t].timeout - Epoch]}
       /\ (/\ Ok(t) /\ op[t].kind = "get"
           /\ hist[op[t].key].st = "set"
           /\ now < hist[op[t].key].deadline)
          => /\ ret[t].value = hist[op[t].key].value
             /\ \E r \in rows : StoredFor(rows, op[t].key) = {r}

UpsertUniquenessWitness ==
  \E t \in Threads :
    /\ Ok(t) /\ op[t].kind = "set"
    /\ \E r \in pre[t] : r.key = op[t].key /\ r.value # <<"pickle", op[t].value>>
    /\ Cardinality(StoredFor(rows, op[t].key)) = 1
    /\ \A r \in rows : r.key = op[t].key => r.value = <<"pickle", op[t].value>>

\* C4: after clear() has completed no row is stored, and get(k, d) returns d
\* for every key k set before the clear, until a set(k, ...) commits.
Clear ==
  \A t \in Threads :
    /\ (Ok(t) /\ op[t].kind = "clear") => rows = {}
    /\ (/\ Ok(t) /\ op[t].kind = "get"
        /\ hist[op[t].key].st = "cleared"
        /\ hist[op[t].key].value # NoValue)
       => ret[t].value = op[t].default

ClearWitness ==
  \E t \in Threads :
    /\ Ok(t) /\ op[t].kind = "get"
    /\ hist[op[t].key].st = "cleared"
    /\ hist[op[t].key].value # NoValue
    /\ ret[t].value = op[t].default
    /\ op[t].default # hist[op[t].key].value

\* C5: every connection opened by a get, set or clear is closed by the time
\* the operation has returned or propagated an error.
CleanupOnEveryExit ==
  \A t \in Threads :
    (Done(t) /\ op[t].kind \in CacheOps /\ mycon[t] # 0)
    => ~conns[mycon[t]].open

\* C6: a cache operation that ends with an error has not committed, and the
\* error the caller receives is the first error raised inside the operation.
ErrorPropagation ==
  \A t \in Threads :
    (Failed(t) /\ op[t].kind \in CacheOps)
    => /\ ~committed[t]
       /\ ret[t].err = firsterr[t]

\* what t's statement does to the rows stored when t was called
Effect(t) ==
  IF op[t].kind = "set"
    THEN {r \in pre[t] : r.key # op[t].key}
           \cup {[key |-> op[t].key, value |-> <<"pickle", op[t].value>>,
                  exp |-> utcnow[t] + op[t].timeout - Epoch]}
  ELSE IF op[t].kind = "get"
    THEN {r \in pre[t] : r.key # op[t].key}
    ELSE {}

\* C7: a get, set or clear that ends with an error leaves the stored rows as
\* they were before the operation or with its statement fully applied; if it
\* failed before its commit succeeded the rows are exactly as before.
AllOrNothing ==
  \A t \in Threads :
    (Failed(t) /\ op[t].kind \in CacheOps)
    => /\ rows = pre[t] \/ rows = Effect(t)
       /\ ~committed[t] => rows = pre[t]

AllOrNothingWitness ==
  \E t \in Threads :
    /\ Failed(t) /\ op[t].kind \in CacheOps
    /\ committed[t]
    /\ rows = Effect(t)
    /\ rows # pre[t]
    /\ pre[t] # {}

\* C8: after a committed set(k, v, timeout=t) with t <= 0, a get(k, d) with no
\* set(k, ...) committed in between returns d.
ZeroOrPastExpiry ==
  \A t \in Threads :
    (/\ Ok(t) /\ op[t].kind = "get"
     /\ hist[op[t].key].st = "set"
     /\ ~hist[op[t].key].positive)
    => ret[t].value = op[t].default

ZeroOrPastExpiryWitness ==
  \E t \in Threads :
    /\ Ok(t) /\ op[t].kind = "get"
    /\ hist[op[t].key].st = "set"
    /\ ~hist[op[t].key].positive
    /\ utcnow[t] = hist[op[t].key].deadline
    /\ result[t] # {}
    /\ ret[t].value = op[t].default
    /\ op[t].default # hist[op[t].key].value

\* C9: a get(k, d) on a key with no stored row returns d; the only errors it
\* can end with are errors raised by the storage engine.
MissingKey ==
  \A t \in Threads :
    (/\ Done(t) /\ op[t].kind = "get" /\ op[t].key # NoValue
     /\ StoredFor(pre[t], op[t].key) = {})
    => \/ /\ ret[t].status = "ok"
          /\ op[t].default \in Defaults
          /\ ret[t].value = op[t].default
          /\ rows = pre[t]
       \/ /\ ret[t].status = "error"
          /\ ret[t].err.type = "OperationalError"

MissingKeyWitness ==
  \E t \in Threads :
    /\ Ok(t) /\ op[t].kind = "get"
    /\ StoredFor(pre[t], op[t].key) = {}
    /\ pre[t] # {}
    /\ ret[t].value = op[t].default

\* C10: running the constructor on storage that already holds the table and
\* rows ends with no error other than one raised by the storage engine, and
\* leaves the table, the index and every stored row as they were.
IdempotentSchemaCreation ==
  \A t \in Threads :
    (Done(t) /\ op[t].kind = "__init__")
    => /\ rows = pre[t]
       /\ schema = {"cache", "cache_key"}
       /\ \A k \in Keys : Cardinality(StoredFor(rows, k)) <= 1
       /\ ret[t].status = "error" => ret[t].err.type = "OperationalError"

IdempotentSchemaCreationWitness ==
  \E t \in Threads :
    /\ Ok(t) /\ op[t].kind = "__init__"
    /\ pre[t] # {}
    /\ rows = pre[t]

\* C11: when the wrapped function raises an exception E that is an instance
\* of Exception, the caller receives a DynamicsException carrying the
\* client's simplified message (raised from E) if and only if simplify_errors
\* was passed as true and E is an instance of no type passed in
\* raise_separately; otherwise the caller receives E itself.  The wrapped
\* function is never called with either of the two keywords.
ErrorSimplification ==
  (wrapper.pc = "idle" /\ wrapper.outcome.status # "none") =>
    LET call == wrapper.call
        outcome == wrapper.outcome
        E == call.func
        simplify == /\ "simplify_errors" \in DOMAIN call.kwargs
                    /\ call.kwargs.simplify_errors
        listed == IF "raise_separately" \in DOMAIN call.kwargs
                    THEN call.kwargs.raise_separately ELSE {}
        separately == \E T \in listed : T \in Mro(E.type)
        simplified == /\ outcome.exc.type = "DynamicsException"
                      /\ outcome.exc.msg = call.self
                      /\ outcome.cause = E
    IN /\ DOMAIN wrapper.received = DOMAIN call.kwargs
                                       \ {"simplify_errors", "raise_separately"}
       /\ (E # NoExc /\ "Exception" \in Mro(E.type)) =>
            /\ outcome.status = "raised"
            /\ simplified <=> (simplify /\ ~separately)
            /\ ~simplified => (outcome.exc = E /\ outcome.cause = NoExc)

ErrorSimplificationWitness ==
  /\ wrapper.pc = "idle"
  /\ wrapper.call.func.type = "KeyError"
  /\ DOMAIN wrapper.call.kwargs =
       {"simplify_errors", "raise_separately", "query"}
  /\ wrapper.call.kwargs.simplify_errors
  /\ wrapper.call.kwargs.raise_separately = {"ValueError", "DynamicsException"}
  /\ DOMAIN wrapper.received = {"query"}
  /\ wrapper.outcome.exc =
       [type |-> "DynamicsException", msg |-> wrapper.call.self]
  /\ wrapper.outcome.cause = wrapper.call.func

\* the state of key k: absent (no row), live (a row whose expiry is later
\* than the clock) or expired (a row whose expiry is at or before the clock)
KeyState(table, clock, k) ==
  IF StoredFor(table, k) = {} THEN "absent"
  ELSE IF \E r \in StoredFor(table, k) : Epoch + r.exp > clock THEN "live"
  ELSE "expired"

\* this step is the successful commit of an operation of the given kind that
\* concerns key k
Commits(kind, k) ==
  \E t \in Threads :
    /\ pc[t] = "commit" /\ pc'[t] = "optimize"
    /\ op[t].kind = kind
    /\ kind = "clear" \/ op[t].key = k

\* C12 as stated: a key changes state only by absent -> live (set),
\* live -> live (set), live -> expired (time passing), expired -> absent (get
\* that observes it, or clear), live -> absent (clear).
PerKeyStateMachineAsStated ==
  [][\A k \in Keys :
       LET a == KeyState(rows, now, k)
           b == KeyState(rows', now', k)
       IN \/ a = b /\ StoredFor(rows', k) = StoredFor(rows, k)
          \/ a = "absent" /\ b = "live" /\ Commits("set", k)
          \/ a = "live" /\ b = "live" /\ Commits("set", k)
          \/ a = "live" /\ b = "expired" /\ now' > now /\ rows' = rows
          \/ a = "expired" /\ b = "absent"
               /\ (Commits("get", k) \/ Commits("clear", k))
          \/ a = "live" /\ b = "absent" /\ Commits("clear", k)]_vars

\* C12, amended: a committed set(k, ...) takes k from any state (absent, live,
\* expired) to live, or to expired when its timeout is <= 0 or has run out by
\* the time it commits; besides that a key changes state only by
\* live -> expired (time passing), expired -> absent (get that observes it, or
\* clear) and live -> absent (clear).
PerKeyStateMachine ==
  [][\A k \in Keys :
       LET a == KeyState(rows, now, k)
           b == KeyState(rows', now', k)
       IN \/ a = b /\ StoredFor(rows', k) = StoredFor(rows, k)
          \/ /\ Commits("set", k)
             /\ \E t \in Threads :
                  /\ pc[t] = "commit" /\ op[t].key = k
                  /\ b = (IF utcnow[t] + op[t].timeout > now
                            THEN "live" ELSE "expired")
          \/ a = "live" /\ b = "expired" /\ now' > now /\ rows' = rows
          \/ a = "expired" /\ b = "absent"
               /\ (Commits("get", k) \/ Commits("clear", k))
          \/ a = "live" /\ b = "absent" /\ Commits("clear", k)]_vars

PerKeyStateMachineWitness ==
  \E t \in Threads :
    /\ Ok(t) /\ op[t].kind = "set"
    /\ KeyState(pre[t], utcnow[t], op[t].key) = "expired"
    /\ KeyState(rows, now, op[t].key) = "live"

\* positions whose next statement is a call on self.con
OnConnection ==
  {"pragma", "select", "delete", "upsert", "clear", "create", "index",
   "init_commit", "init_close", "commit", "optimize", "close",
   "exc_optimize", "exc_close"}

\* C13: every statement, commit, optimize directive and close of a running
\* operation is issued on the connection that the operation opened itself,
\* and that connection is still open.
NoSharedConnection ==
  \A t \in Threads :
    pc[t] \in OnConnection
    => /\ self_con(t) = mycon[t]
       /\ conns[mycon[t]].open

\* C14: in every get, set and clear the pragmas are all applied before the
\* first statement of the body, the commit follows a body that finished
\* without error, the optimize directive follows the commit or the failure,
\* and the operation returns or propagates its error only after the close.
StepOrdering ==
  \A t \in Threads :
    (op[t].kind \in CacheOps /\ mycon[t] # 0)
    => /\ conns[mycon[t]].executed
            => conns[mycon[t]].pragmas =
                 {DEFAULT_PRAGMA[i][1] : i \in 1..Len(DEFAULT_PRAGMA)}
       /\ committed[t]
            => /\ pc[t] \in {"optimize", "close", "return", "idle"}
               /\ sqlerror[t] = NoErr
       /\ pc[t] \in {"optimize", "close", "return"} => committed[t]
       /\ pc[t] \in {"exc_optimize", "exc_close", "raise"}
            => sqlerror[t] # NoErr /\ ~committed[t]
       /\ (pc[t] \in {"return", "raise"} \/ Done(t))
            => ~conns[mycon[t]].open

\* C15: get deletes by key, not the row it read: when the delete of a get(k)
\* that read an expired row commits, no row for k is left, whichever row was
\* stored for k at that moment.  The witness is the interleaving of the
\* claim: get(k) read an expired row, a concurrent set(k, v) then committed
\* a row that is not expired, and get's delete removed that row.
NonAtomicExpiryCheck ==
  [][\A t \in Threads :
       (/\ pc[t] = "commit" /\ pc'[t] = "optimize"
        /\ op[t].kind = "get"
        /\ \E r \in result[t] : Epoch + r.exp <= utcnow[t])
       => StoredFor(rows', op[t].key) = {}]_vars

NonAtomicExpiryCheckWitness ==
  \E g \in Threads, s \in Threads :
    /\ op[g].kind = "get" /\ op[s].kind = "set" /\ op[s].key = op[g].key
    /\ Ok(g) /\ committed[g]
    /\ Ok(s) /\ committed[s]
    /\ \E r \in result[g] : Epoch + r.exp <= utcnow[g] /\ r # data[s]
    /\ Epoch + data[s].exp > now
    /\ StoredFor(rows, op[g].key) = {}

\* C16: when two set calls on the same key k have both completed without
\* error, exactly one row is stored for k, and it holds the value and the
\* expiry of the call that committed last.
LastCommitterWins ==
  \A t \in Threads : \A u \in Threads \ {t} :
    (/\ Ok(t) /\ op[t].kind = "set"
     /\ Ok(u) /\ op[u].kind = "set" /\ op[u].key = op[t].key)
    => /\ hist[op[t].key].st = "set"
       /\ StoredFor(rows, op[t].key) =
            {[key |-> op[t].key,
              value |-> <<"pickle", hist[op[t].key].value>>,
              exp |-> hist[op[t].key].deadline - Epoch]}
       /\ \E w \in {t, u} :
            StoredFor(rows, op[t].key) =
              {[key |-> op[w].key, value |-> <<"pickle", op[w].value>>,
                exp |-> utcnow[w] + op[w].timeout - Epoch]}

\* both calls were made before either had committed
LastCommitterWinsWitness ==
  \E t \in Threads : \E u \in Threads \ {t} :
    /\ Ok(t) /\ op[t].kind = "set"
    /\ Ok(u) /\ op[u].kind = "set" /\ op[u].key = op[t].key
    /\ op[t].value # op[u].value
    /\ pre[t] = pre[u] /\ pre[t] # {}
    /\ data[t] \notin pre[t] /\ data[u] \notin pre[u]
    /\ hist[op[t].key].value = op[u].value
    /\ rows = {data[u]}

\* C17: a stored row is removed or changed only by the commit of a get on
\* its key that read that row and found it expired, of a set on its key, or
\* of a clear; no other step (the clock advancing, a get on a live key, a get
\* or set on another key, the constructor) removes or changes it.
NoProactiveEviction ==
  [][\A r \in rows :
       r \notin rows'
       => \E t \in Threads :
            /\ pc[t] = "commit" /\ pc'[t] = "optimize"
            /\ \/ op[t].kind = "clear"
               \/ op[t].kind = "set" /\ op[t].key = r.key
               \/ /\ op[t].kind = "get" /\ op[t].key = r.key
                  /\ r \in result[t]
                  /\ Epoch + r.exp <= utcnow[t]]_vars

\* a get on a live key has returned its value after the clock advanced, and
\* the expired row of another key is still stored
NoProactiveEvictionWitness ==
  \E t \in Threads :
    /\ Ok(t) /\ op[t].kind = "get"
    /\ now > Epoch
    /\ \E r \in result[t] : Epoch + r.exp > utcnow[t] /\ r \in rows
    /\ \E r \in rows : /\ r.key # op[t].key
                        /\ Epoch + r.exp <= now
                        /\ r \in pre[t]

\* C18: on every connection the cache opens, the one of the constructor
\* included, all seven pragmas have been applied before any other statement
\* is executed on it.
PragmasOnEveryConnection ==
  \A c \in ConnIds :
    conns[c].executed
    => conns[c].pragmas = {DEFAULT_PRAGMA[i][1] : i \in 1..Len(DEFAULT_PRAGMA)}

\* C19: a get that returns a stored value (not its default) returns the value
\* of a row it fetched whose expiry is strictly later than the clock value
\* that get read, whatever the other caller does meanwhile.
ExpiredNeverServed ==
  \A t \in Threads :
    (Ok(t) /\ op[t].kind = "get" /\ op[t].default = NoValue)
    => \E r \in result[t] :
         /\ r.value = <<"pickle", ret[t].value>>
         /\ Epoch + r.exp > utcnow[t]
         /\ utcnow[t] >= Epoch

\* the get returned the value of a row that a concurrent set committed while
\* the get was running
ExpiredNeverServedWitness ==
  \E g \in Threads : \E s \in Threads \ {g} :
    /\ Ok(g) /\ op[g].kind = "get" /\ op[g].default = NoValue
    /\ op[s].kind = "set" /\ committed[s]
    /\ data[s] \notin pre[g]
    /\ result[g] = {data[s]}
    /\ ret[g].value = op[s].value
    /\ Epoch + data[s].exp > utcnow[g]
    /\ utcnow[g] > Epoch

====
